---- MODULE Spec2Model ----
(***************************************************************************)
(* RealtorOS (src/app.py): the Sales_Ledger / Transactions bookkeeping of  *)
(* the Streamlit application.                                              *)
(*                                                                         *)
(* The record store is a Google spreadsheet with one worksheet per table;  *)
(* a worksheet is modelled as the sequence of its data rows (row 1, the    *)
(* header, is left out, so data row k of the sheet is element k-1+1 = k of *)
(* the sequence and sheet row number k+1).  Every browser session has its  *)
(* own st.session_state holding the tables as last loaded.  Amounts are    *)
(* whole shillings.  A form handler is one action; every storage call of a *)
(* handler may raise, which the handler's `except Exception` turns into an *)
(* error banner: the point at which the handler was cut short is the       *)
(* action's `fail` input.                                                  *)
(***************************************************************************)
EXTENDS Integers, Sequences, FiniteSets, TLC

\* ---- bounds of the model
MaxPrice == 2
MaxSales == 2
MaxTrans == 2
MaxClock == 1
MaxTxnId == 3
MaxRows == 3
MaxTargets == 5
MaxDashRows == 2

\* ---- constants of the program
DaysBack == 90

\* ---- input domains
Sessions == {"s1", "s2"}
Names == {"", "A"}
Phones == {"", "P"}
Amounts == 0..MaxPrice
Bool == {TRUE, FALSE}

VARIABLES
    Sales_Ledger,       \* worksheet "Sales_Ledger": data rows
    Transactions,       \* worksheet "Transactions": data rows
    ledger_data,        \* st.session_state.ledger_data, per session
    transactions_data,  \* st.session_state.transactions_data, per session
    clock,              \* the second last read by datetime.datetime.now()
    txn_seq,            \* number of uuid4 tokens that became a Transaction_ID
    active,             \* the sessions that exist
    last,               \* history: the handler that ran last, its inputs, its outcome
    Targets,            \* worksheet "Targets": data rows
    targets_data,       \* st.session_state.targets_data, per session
    trans_df,           \* Targets page: the dated frame given to calculate_suggested_targets
    suggested,          \* Targets page: what calculate_suggested_targets returned
    actuals,            \* Dashboard: the week / month / quarter / year sums shown
    headers             \* row 1 of each worksheet

vars == <<Sales_Ledger, Transactions, ledger_data, transactions_data,
          clock, txn_seq, active, last, Targets, targets_data, trans_df, suggested,
          actuals, headers>>

\* what the Targets and Fix Sheets pages work on
tvars == <<Targets, targets_data, trans_df, suggested, actuals, headers>>

\* what the sales and payment pages work on
bvars == <<Sales_Ledger, Transactions, ledger_data, transactions_data, clock, txn_seq>>

\* ---- helpers
Min(a, b) == IF a <= b THEN a ELSE b

\* ---- New Sale page
\* a slip: the operands of the subtraction exchanged
new_sale_balance_swapped(total_price, initial_payment) == initial_payment - total_price

new_sale_balance(total_price, initial_payment) == total_price - initial_payment

new_sale_status(balance) == IF balance = 0 THEN "Fully Paid" ELSE "Installment Plan"

\* a slip: >= for >
new_sale_has_transaction_geq(initial_payment) == initial_payment >= 0

new_sale_has_transaction(initial_payment) == initial_payment > 0

sale_id_of(prefix, t) == <<prefix, t>>

\* a slip: the Amount_Paid and Balance columns exchanged
ledger_row_paid_balance_exchanged(sale_id, client_name, phone, total_price, amount_paid, balance, status, notes) ==
    [Sale_ID |-> sale_id, Client_Name |-> client_name, Phone |-> phone,
     Total_Sale_Price |-> total_price, Amount_Paid |-> balance,
     Balance |-> amount_paid, Status |-> status, Notes |-> notes]

\* a slip: the amount paid left out of the row
ledger_row_amount_paid_blank(sale_id, client_name, phone, total_price, amount_paid, balance, status, notes) ==
    [Sale_ID |-> sale_id, Client_Name |-> client_name, Phone |-> phone,
     Total_Sale_Price |-> total_price, Amount_Paid |-> 0,
     Balance |-> balance, Status |-> status, Notes |-> notes]

ledger_row(sale_id, client_name, phone, total_price, amount_paid, balance, status, notes) ==
    [Sale_ID |-> sale_id, Client_Name |-> client_name, Phone |-> phone,
     Total_Sale_Price |-> total_price, Amount_Paid |-> amount_paid,
     Balance |-> balance, Status |-> status, Notes |-> notes]

\* `last` before any handler has run; `selected` is a row with nothing in it.
NoRow == ledger_row(<<>>, "", "", 0, 0, 0, "", "")

NoOp == [op |-> "none", outcome |-> "none", session |-> "none", fail |-> "none",
         total |-> 0, amount |-> 0, sale_id |-> <<>>, selected |-> NoRow,
         transaction_id |-> 0, sheet_name |-> "", match |-> FALSE]

\* a slip: the phone left out of the row
trans_row_phone_dropped(transaction_id, amount, payment_type, phone, sale_id) ==
    [Transaction_ID |-> transaction_id, Amount |-> amount,
     Payment_Type |-> payment_type, Phone |-> "", Sale_ID |-> sale_id]

trans_row(transaction_id, amount, payment_type, phone, sale_id) ==
    [Transaction_ID |-> transaction_id, Amount |-> amount,
     Payment_Type |-> payment_type, Phone |-> phone, Sale_ID |-> sale_id]

\* ---- data loading: a failed load yields an empty frame
load_sales_ledger(ok) == IF ok THEN Sales_Ledger' ELSE <<>>

load_transactions(ok) == IF ok THEN Transactions' ELSE <<>>

\* str(n) of a whole number n >= 0: its decimal digits
RECURSIVE str(_)
str(n) == IF n < 10 THEN <<n>> ELSE Append(str(n \div 10), n % 10)

\* pd.to_numeric of a cell holding decimal digits
RECURSIVE to_numeric(_)
to_numeric(cell) ==
    IF cell = <<>> THEN 0
    ELSE 10 * to_numeric(SubSeq(cell, 1, Len(cell) - 1)) + cell[Len(cell)]

\* load_targets: the rows with Target_Amount made numeric; a failed load yields
\* pd.DataFrame(), a frame without columns
load_targets(ok) ==
    IF ok THEN [columns |-> TRUE,
                rows |-> [k \in 1..Len(Targets') |->
                             [Targets'[k] EXCEPT
                                  !.Target_Amount = to_numeric(Targets'[k].Target_Amount)]]]
          ELSE [columns |-> FALSE, rows |-> <<>>]

\* What `last` records of a handler run.
Ran(op, s, outcome, fail) ==
    [NoOp EXCEPT !.op = op, !.session = s, !.outcome = outcome, !.fail = fail]

\* a slip: the comparison of the payment with the price left out
new_sale_error_no_exceeds(client_name, phone, total_price, initial_payment) ==
    IF client_name = "" \/ phone = "" THEN "required" ELSE ""

\* The st.error branch taken by a submission, "" when it passes validation.
new_sale_error(client_name, phone, total_price, initial_payment) ==
    IF client_name = "" \/ phone = "" THEN "required"
    ELSE IF initial_payment > total_price THEN "exceeds"
    ELSE ""

CreateSaleRejected(s) ==
    /\ s \in active
    /\ UNCHANGED tvars
    /\ \E e \in {new_sale_error(c, p, t, i) :
                    c \in Names, p \in Phones, t \in Amounts, i \in Amounts} \ {""} :
         last' = Ran("CreateSale", s, "rejected", e)
    /\ UNCHANGED <<Sales_Ledger, Transactions, ledger_data, transactions_data,
                   clock, txn_seq, active>>

CreateSaleAccepted(s) ==
    /\ s \in active
    /\ UNCHANGED tvars
    /\ Len(Sales_Ledger) < MaxSales
    /\ \E client_name \in Names, phone \in Phones,
          total_price \in Amounts, initial_payment \in Amounts,
          t \in clock..Min(clock + 1, MaxClock) :
         LET sale_id == sale_id_of("SALE", t)
             balance == new_sale_balance(total_price, initial_payment)
             status == new_sale_status(balance)
             hasT == new_sale_has_transaction(initial_payment)
             lrow == ledger_row(sale_id, client_name, phone, total_price,
                                initial_payment, balance, status, "")
             trow == trans_row(txn_seq + 1, initial_payment, "New Sale",
                               phone, sale_id)
             rec(outcome, f) ==
                 [Ran("CreateSale", s, outcome, f) EXCEPT
                      !.total = total_price, !.amount = initial_payment,
                      !.sale_id = sale_id]
         IN
         /\ new_sale_error(client_name, phone, total_price, initial_payment) = ""
         /\ hasT => (Len(Transactions) < MaxTrans /\ txn_seq < MaxTxnId)
         /\ clock' = t
         /\ UNCHANGED active
         /\ \/ \* open_by_key / worksheet / append_row of the ledger row raised
               /\ UNCHANGED <<Sales_Ledger, Transactions, ledger_data,
                              transactions_data, txn_seq, last>>
            \/ \* the ledger row is appended; appending the transaction raised
               /\ hasT
               /\ Sales_Ledger' = Append(Sales_Ledger, lrow)
               /\ last' = rec("error", "ledger")
               /\ UNCHANGED <<Transactions, ledger_data, transactions_data, txn_seq>>
            \/ \* no storage call raised
               /\ Sales_Ledger' = Append(Sales_Ledger, lrow)
               /\ Transactions' = IF hasT THEN Append(Transactions, trow)
                                          ELSE Transactions
               /\ txn_seq' = IF hasT THEN txn_seq + 1 ELSE txn_seq
               /\ \E okT \in Bool, okL \in Bool :
                    /\ transactions_data' =
                         [transactions_data EXCEPT ![s] = load_transactions(okT)]
                    /\ ledger_data' =
                         [ledger_data EXCEPT ![s] = load_sales_ledger(okL)]
               /\ last' = rec("ok", "none")

CreateSale(s) == CreateSaleRejected(s) \/ CreateSaleAccepted(s)

\* ---- Import Old Sale page
remaining_balance(total_price, amount_already_paid) == total_price - amount_already_paid

\* a slip: the check of the remaining balance left out
import_sale_error_no_balance_check(client_name, phone, total_price, amount_already_paid) ==
    IF client_name = "" \/ phone = "" THEN "required"
    ELSE IF amount_already_paid > total_price THEN "exceeds"
    ELSE ""

import_sale_error(client_name, phone, total_price, amount_already_paid) ==
    IF client_name = "" \/ phone = "" THEN "required"
    ELSE IF amount_already_paid > total_price THEN "exceeds"
    ELSE IF remaining_balance(total_price, amount_already_paid) <= 0 THEN "fully_paid"
    ELSE ""

import_sale_status == "Installment Plan"

ImportRejected(s) ==
    /\ s \in active
    /\ UNCHANGED tvars
    /\ \E e \in {import_sale_error(c, p, t, a) :
                    c \in Names, p \in Phones, t \in Amounts, a \in Amounts} \ {""} :
         last' = Ran("ImportHistoricalSale", s, "rejected", e)
    /\ UNCHANGED <<Sales_Ledger, Transactions, ledger_data, transactions_data,
                   clock, txn_seq, active>>

ImportAccepted(s) ==
    /\ s \in active
    /\ UNCHANGED tvars
    /\ Len(Sales_Ledger) < MaxSales
    /\ \E client_name \in Names, phone \in Phones,
          total_price \in Amounts, amount_already_paid \in Amounts,
          t \in clock..Min(clock + 1, MaxClock) :
         LET sale_id == sale_id_of("LEGACY", t)
             lrow == ledger_row(sale_id, client_name, phone, total_price,
                                amount_already_paid,
                                remaining_balance(total_price, amount_already_paid),
                                import_sale_status, "[HISTORICAL IMPORT]")
         IN
         /\ import_sale_error(client_name, phone, total_price, amount_already_paid) = ""
         /\ clock' = t
         /\ UNCHANGED <<active, Transactions, transactions_data, txn_seq>>
         /\ \/ \* open_by_key / worksheet / append_row raised
               UNCHANGED <<Sales_Ledger, ledger_data, last>>
            \/ /\ Sales_Ledger' = Append(Sales_Ledger, lrow)
               /\ \E okL \in Bool :
                    ledger_data' = [ledger_data EXCEPT ![s] = load_sales_ledger(okL)]
               /\ last' = [Ran("ImportHistoricalSale", s, "ok", "none") EXCEPT
                               !.total = total_price, !.amount = amount_already_paid,
                               !.sale_id = sale_id]

ImportHistoricalSale(s) == ImportRejected(s) \/ ImportAccepted(s)

\* ---- Payment Entry page
outstanding(ledger_df) == SelectSeq(ledger_df, LAMBDA row : row.Status # "Fully Paid")

Display(row) == <<row.Client_Name, row.Sale_ID, row.Balance>>

\* outstanding[outstanding['Display'] == selected_display].iloc[0]
selected_sale_of(out, selected_display) ==
    out[CHOOSE i \in 1..Len(out) :
            /\ Display(out[i]) = selected_display
            /\ \A j \in 1..(i - 1) : Display(out[j]) # selected_display]

\* st.number_input(min_value=0.0, max_value=Balance): the amounts the widget returns
payment_amounts(selected_sale) == 0..selected_sale.Balance

payment_error(payment_amount) == IF payment_amount <= 0 THEN "nonpositive" ELSE ""

\* for i, row in enumerate(all_ledger[1:], start=2): if row[0] == Sale_ID
\* as an index into the data rows; 0 when the loop ends without a match
find_row(all_ledger, sale_id) ==
    IF \E i \in 1..Len(all_ledger) : all_ledger[i].Sale_ID = sale_id
    THEN CHOOSE i \in 1..Len(all_ledger) :
             /\ all_ledger[i].Sale_ID = sale_id
             /\ \A j \in 1..(i - 1) : all_ledger[j].Sale_ID # sale_id
    ELSE 0

new_amount_paid(selected_sale, payment_amount) ==
    selected_sale.Amount_Paid + payment_amount

new_balance(selected_sale, payment_amount) ==
    selected_sale.Total_Sale_Price - new_amount_paid(selected_sale, payment_amount)

new_status(balance) == IF balance = 0 THEN "Fully Paid" ELSE "Installment Plan"

\* a slip: the balance cell written before the amount_paid cell
update_cells_balance_first(all_ledger, i, selected_sale, payment_amount, n) ==
    [all_ledger EXCEPT
        ![i].Balance =
            IF n >= 1 THEN new_balance(selected_sale, payment_amount) ELSE @,
        ![i].Amount_Paid =
            IF n >= 2 THEN new_amount_paid(selected_sale, payment_amount) ELSE @,
        ![i].Status =
            IF n >= 3 THEN new_status(new_balance(selected_sale, payment_amount))
                      ELSE @]

\* a slip: the first write lands one column to the left, on the price
update_cells_price_column(all_ledger, i, selected_sale, payment_amount, n) ==
    [all_ledger EXCEPT
        ![i].Total_Sale_Price =
            IF n >= 1 THEN new_amount_paid(selected_sale, payment_amount) ELSE @,
        ![i].Balance =
            IF n >= 2 THEN new_balance(selected_sale, payment_amount) ELSE @,
        ![i].Status =
            IF n >= 3 THEN new_status(new_balance(selected_sale, payment_amount))
                      ELSE @]

\* The three update_cell calls (columns 8, 9, 11), of which the first n took effect.
update_cells(all_ledger, i, selected_sale, payment_amount, n) ==
    [all_ledger EXCEPT
        ![i].Amount_Paid =
            IF n >= 1 THEN new_amount_paid(selected_sale, payment_amount) ELSE @,
        ![i].Balance =
            IF n >= 2 THEN new_balance(selected_sale, payment_amount) ELSE @,
        ![i].Status =
            IF n >= 3 THEN new_status(new_balance(selected_sale, payment_amount))
                      ELSE @]

\* `fail` of a run cut short after n of the three cell writes
CellsWritten == [n \in 0..2 |-> CASE n = 0 -> "cells0" [] n = 1 -> "cells1"
                                                    [] n = 2 -> "cells2"]

RecordPayment(s) ==
    /\ s \in active
    /\ UNCHANGED tvars
    /\ ledger_data[s] # <<>>
    /\ LET out == outstanding(ledger_data[s]) IN
       /\ out # <<>>
       /\ \E selected_display \in {Display(out[k]) : k \in 1..Len(out)} :
            LET selected_sale == selected_sale_of(out, selected_display) IN
            \E payment_amount \in payment_amounts(selected_sale) :
              LET trow == trans_row(txn_seq + 1, payment_amount, "Installment",
                                    selected_sale.Phone, selected_sale.Sale_ID)
                  i == find_row(Sales_Ledger, selected_sale.Sale_ID)
                  rec(outcome, f) ==
                      [Ran("RecordPayment", s, outcome, f) EXCEPT
                           !.amount = payment_amount,
                           !.sale_id = selected_sale.Sale_ID,
                           !.selected = selected_sale]
              IN
              IF payment_error(payment_amount) # ""
              THEN /\ last' = Ran("RecordPayment", s, "rejected",
                                  payment_error(payment_amount))
                   /\ UNCHANGED <<Sales_Ledger, Transactions, ledger_data,
                                  transactions_data, clock, txn_seq, active>>
              ELSE
              /\ Len(Transactions) < MaxTrans /\ txn_seq < MaxTxnId
              /\ UNCHANGED <<active, clock>>
              /\ \/ \* open_by_key / worksheet / append_row of the transaction raised
                    UNCHANGED <<Sales_Ledger, Transactions, ledger_data,
                                transactions_data, txn_seq, last>>
                 \/ \* the transaction is appended; a later storage call raised after
                    \* n of the three cell writes
                    /\ Transactions' = Append(Transactions, trow)
                    /\ txn_seq' = txn_seq + 1
                    /\ \E n \in 0..2 :
                         /\ n > 0 => i # 0
                         /\ Sales_Ledger' =
                              IF n = 0 THEN Sales_Ledger
                              ELSE update_cells(Sales_Ledger, i, selected_sale,
                                                payment_amount, n)
                         /\ last' = rec("error", CellsWritten[n])
                    /\ UNCHANGED <<ledger_data, transactions_data>>
                 \/ \* no storage call raised
                    /\ Transactions' = Append(Transactions, trow)
                    /\ txn_seq' = txn_seq + 1
                    /\ Sales_Ledger' =
                         IF i = 0 THEN Sales_Ledger
                         ELSE update_cells(Sales_Ledger, i, selected_sale,
                                           payment_amount, 3)
                    /\ \E okT \in Bool, okL \in Bool :
                         /\ transactions_data' =
                              [transactions_data EXCEPT ![s] = load_transactions(okT)]
                         /\ ledger_data' =
                              [ledger_data EXCEPT ![s] = load_sales_ledger(okL)]
                    /\ last' = rec("ok", "none")

\* ---- sidebar "Refresh Data"
RefreshData(s) ==
    /\ s \in active
    /\ UNCHANGED <<Sales_Ledger, Transactions, clock, txn_seq, active>>
    /\ UNCHANGED <<Targets, trans_df, suggested, actuals, headers>>
    /\ \E okT \in Bool, okL \in Bool, okG \in Bool :
         /\ transactions_data' =
              [transactions_data EXCEPT ![s] = load_transactions(okT)]
         /\ ledger_data' = [ledger_data EXCEPT ![s] = load_sales_ledger(okL)]
         /\ targets_data' = [targets_data EXCEPT ![s] = load_targets(okG)]
    /\ last' = Ran("RefreshData", s, "ok", "none")

\* ---- Targets page: calculate_suggested_targets
\* Amounts of money that are not whole are fractions <<numerator, denominator>> in
\* lowest terms, so that two of them are the same amount exactly when they are equal.
RECURSIVE GCD(_, _)
GCD(a, b) == IF b = 0 THEN a ELSE GCD(b, a % b)

Frac(n, d) == <<n \div GCD(n, d), d \div GCD(n, d)>>

FracDiv(x, k) == Frac(x[1], x[2] * k)

FracMul(x, n, d) == Frac(x[1] * n, x[2] * d)

\* A timestamp counts half days; a date is the midnight that starts its day.
timedelta(days) == 2 * days

\* pd.to_datetime(errors='coerce'): a cell that is no date becomes NaT
NaT == [NaT |-> TRUE, t |-> 0]

Timestamp(t) == [NaT |-> FALSE, t |-> t]

RECURSIVE AmountSum(_)
AmountSum(df) == IF df = <<>> THEN 0 ELSE Head(df).Amount + AmountSum(Tail(df))

\* a slip: > for >=
on_or_after_strict(date, t) == ~date.NaT /\ date.t > t

\* transactions_df['Date'] >= three_months_ago; a comparison with NaT is False
on_or_after(date, t) == ~date.NaT /\ date.t >= t

default_targets ==
    [Week |-> Frac(500000, 1), Month |-> Frac(2000000, 1),
     Quarter |-> Frac(6000000, 1), Year |-> Frac(25000000, 1)]

\* a slip: the defaults returned when no row is recent
calculate_suggested_targets_defaults_when_stale(transactions_df, now) ==
    IF transactions_df = <<>> THEN default_targets
    ELSE LET three_months_ago == now - timedelta(DaysBack)
             recent_data == SelectSeq(transactions_df,
                                LAMBDA row : on_or_after(row.Date, three_months_ago))
             avg_monthly == FracDiv(Frac(AmountSum(recent_data), 1), 3)
         IN IF recent_data = <<>> THEN default_targets
            ELSE [Week |-> FracDiv(avg_monthly, 4),
                  Month |-> FracMul(avg_monthly, 11, 10),
                  Quarter |-> FracMul(FracMul(avg_monthly, 3, 1), 11, 10),
                  Year |-> FracMul(FracMul(avg_monthly, 12, 1), 11, 10)]

calculate_suggested_targets(transactions_df, now) ==
    IF transactions_df = <<>> THEN default_targets
    ELSE LET three_months_ago == now - timedelta(DaysBack)
             recent_data == SelectSeq(transactions_df,
                                LAMBDA row : on_or_after(row.Date, three_months_ago))
             avg_monthly ==
                 IF recent_data = <<>>
                 THEN FracDiv(Frac(AmountSum(transactions_df), 1), 3)
                 ELSE FracDiv(Frac(AmountSum(recent_data), 1), 3)
         IN [Week |-> FracDiv(avg_monthly, 4),
             Month |-> FracMul(avg_monthly, 11, 10),
             Quarter |-> FracMul(FracMul(avg_monthly, 3, 1), 11, 10),
             Year |-> FracMul(FracMul(avg_monthly, 12, 1), 11, 10)]

\* the frames and clock readings the function is tried on
FrameDates == {NaT, Timestamp(0 - timedelta(DaysBack + 1)),
               Timestamp(0 - timedelta(DaysBack)), Timestamp(0)}

FrameAmounts == {0, 3000000, 6000000}

FrameRows == [Date : FrameDates, Amount : FrameAmounts]

RECURSIVE Frames(_)
Frames(n) ==
    IF n = 0 THEN {<<>>}
    ELSE Frames(n - 1) \cup
         {Append(f, r) : f \in {g \in Frames(n - 1) : Len(g) = n - 1}, r \in FrameRows}

NowTimes == {0, 1}

NoSuggestion == [done |-> FALSE, now |-> 0, result |-> default_targets]

\* Targets page, lines 682-685: the suggestion shown at a rendering of the page
SuggestTargets ==
    /\ \E now \in NowTimes :
         suggested' = [done |-> TRUE, now |-> now,
                       result |-> calculate_suggested_targets(trans_df, now)]
    /\ UNCHANGED <<bvars, active, last, Targets, targets_data, trans_df, actuals, headers>>

\* ---- Dashboard: actuals of the current week, month, quarter and year
\* Calendar dates: timestamp 0 is the midnight that starts Monday 1 January 2024.
Epoch == [year |-> 2024, weekday |-> 0]

is_leap(year) == (year % 4 = 0 /\ year % 100 # 0) \/ year % 400 = 0

days_in_year(year) == IF is_leap(year) THEN 366 ELSE 365

days_in_month(year, month) ==
    IF month = 2 THEN (IF is_leap(year) THEN 29 ELSE 28)
    ELSE IF month \in {4, 6, 9, 11} THEN 30 ELSE 31

RECURSIVE days_before_year(_)
days_before_year(year) ==
    IF year = Epoch.year THEN 0
    ELSE days_before_year(year - 1) + days_in_year(year - 1)

RECURSIVE days_before_month(_, _)
days_before_month(year, month) ==
    IF month = 1 THEN 0
    ELSE days_before_month(year, month - 1) + days_in_month(year, month - 1)

\* the day number of a calendar date
toordinal(year, month, day) ==
    days_before_year(year) + days_before_month(year, month) + day - 1

\* datetime.datetime(year, month, day)
datetime(year, month, day) == Timestamp(timedelta(toordinal(year, month, day)))

\* the day number of a timestamp
ordinal_of(date) == date.t \div timedelta(1)

RECURSIVE year_from(_, _)
year_from(n, year) ==
    IF n < days_in_year(year) THEN [year |-> year, yday |-> n]
    ELSE year_from(n - days_in_year(year), year + 1)

RECURSIVE month_from(_, _, _)
month_from(yday, year, month) ==
    IF yday < days_in_month(year, month) THEN month
    ELSE month_from(yday - days_in_month(year, month), year, month + 1)

\* date.year, date.month
year_of(date) == year_from(ordinal_of(date), Epoch.year).year

month_of(date) ==
    month_from(year_from(ordinal_of(date), Epoch.year).yday, year_of(date), 1)

\* date.weekday() of a day number: 0 is Monday
weekday(n) == (n + Epoch.weekday) % 7

\* the Monday that starts ISO week 1 of a year: the week holding the year's first
\* Thursday
isoweek1monday(year) ==
    LET firstday == days_before_year(year)
        firstweekday == weekday(firstday)
        week1monday == firstday - firstweekday
    IN IF firstweekday > 3 THEN week1monday + 7 ELSE week1monday

\* date.isocalendar(): ISO year and ISO week
isocalendar(date) ==
    LET n == ordinal_of(date)
        year == year_of(date)
        week1monday == isoweek1monday(year)
    IN IF n < week1monday
       THEN [year |-> year - 1, week |-> (n - isoweek1monday(year - 1)) \div 7 + 1]
       ELSE IF (n - week1monday) \div 7 >= 52 /\ n >= isoweek1monday(year + 1)
       THEN [year |-> year + 1, week |-> 1]
       ELSE [year |-> year, week |-> (n - week1monday) \div 7 + 1]

get_week_number(date) == isocalendar(date).week

get_quarter(date) == (month_of(date) - 1) \div 3 + 1

\* trans_df[(Date.dt.isocalendar().week == current_week) & (Date.dt.year == current_year)];
\* a row without a date passes no filter
week_data(transactions, today) ==
    SelectSeq(transactions,
              LAMBDA row : /\ ~row.Date.NaT
                           /\ get_week_number(row.Date) = get_week_number(today)
                           /\ year_of(row.Date) = year_of(today))

month_data(transactions, today) ==
    SelectSeq(transactions,
              LAMBDA row : /\ ~row.Date.NaT
                           /\ month_of(row.Date) = month_of(today)
                           /\ year_of(row.Date) = year_of(today))

quarter_data(transactions, today) ==
    SelectSeq(transactions,
              LAMBDA row : /\ ~row.Date.NaT
                           /\ get_quarter(row.Date) = get_quarter(today)
                           /\ year_of(row.Date) = year_of(today))

year_data(transactions, today) ==
    SelectSeq(transactions,
              LAMBDA row : ~row.Date.NaT /\ year_of(row.Date) = year_of(today))

\* the transactions and clock readings the dashboard is tried on
DashboardDates ==
    {NaT, datetime(2024, 1, 1), datetime(2024, 12, 29), datetime(2024, 12, 30),
     datetime(2025, 1, 1), datetime(2025, 1, 6), datetime(2025, 3, 31),
     datetime(2025, 4, 1)}

DashboardAmounts == {1, 2}

DashboardRows == [Date : DashboardDates, Amount : DashboardAmounts]

RECURSIVE DashboardFrames(_)
DashboardFrames(n) ==
    IF n = 0 THEN {<<>>}
    ELSE DashboardFrames(n - 1) \cup
         {Append(f, r) : f \in {g \in DashboardFrames(n - 1) : Len(g) = n - 1},
                         r \in DashboardRows}

DashboardNows ==
    {datetime(2024, 1, 1), datetime(2024, 12, 30), datetime(2025, 1, 1),
     datetime(2025, 3, 31), datetime(2025, 4, 1)}

NoActuals == [done |-> FALSE, today |-> Timestamp(0),
              week |-> 0, month |-> 0, quarter |-> 0, year |-> 0]

\* Dashboard page, lines 266-284: a rendering with transactions to show
Dashboard ==
    /\ trans_df # <<>>
    /\ \E today \in DashboardNows :
         actuals' = [done |-> TRUE, today |-> today,
                     week |-> AmountSum(week_data(trans_df, today)),
                     month |-> AmountSum(month_data(trans_df, today)),
                     quarter |-> AmountSum(quarter_data(trans_df, today)),
                     year |-> AmountSum(year_data(trans_df, today))]
    /\ UNCHANGED <<bvars, active, last, Targets, targets_data, trans_df, suggested,
                   headers>>

\* ---- Targets page: saving targets
target_row(year, period_type, period_number, target_amount) ==
    [Year |-> str(year), Period_Type |-> period_type,
     Period_Number |-> str(period_number), Target_Amount |-> str(target_amount)]

\* datetime.datetime.now() as the Targets page and the dashboard use it
Todays == {[year |-> 2025, week |-> 1, month |-> 1, quarter |-> 1]}

TargetAmounts == {1, 2}

\* the periods the individual form is tried on
FormYears == {2025}

FormPeriods == {<<"Week", 1>>, <<"Week", 2>>, <<"Month", 1>>}

\* target_form, "Save Target"
SaveTarget(s) ==
    /\ s \in active
    /\ Len(Targets) < MaxTargets
    /\ UNCHANGED <<bvars, active, trans_df, suggested, actuals, headers>>
    /\ \E target_year \in FormYears, period \in FormPeriods,
          target_amount \in TargetAmounts :
         LET row == target_row(target_year, period[1], period[2], target_amount) IN
         \/ \* open_by_key / worksheet / append_row raised
            /\ last' = Ran("SaveTarget", s, "error", "none")
            /\ UNCHANGED <<Targets, targets_data>>
         \/ /\ Targets' = Append(Targets, row)
            /\ \E okG \in Bool :
                 targets_data' = [targets_data EXCEPT ![s] = load_targets(okG)]
            /\ last' = Ran("SaveTarget", s, "ok", "none")

\* targets_to_add of quick_target_form
targets_to_add(today, quick_week, quick_month, quick_quarter, quick_year) ==
    <<target_row(today.year, "Week", today.week, quick_week),
      target_row(today.year, "Month", today.month, quick_month),
      target_row(today.year, "Quarter", today.quarter, quick_quarter),
      target_row(today.year, "Year", 1, quick_year)>>

\* quick_target_form, "Set All Current Period Targets"
QuickSetTargets(s) ==
    /\ s \in active
    /\ Len(Targets) + 4 <= MaxTargets
    /\ UNCHANGED <<bvars, active, trans_df, suggested, actuals, headers>>
    /\ \E today \in Todays, quick_week \in TargetAmounts, quick_month \in TargetAmounts,
          quick_quarter \in TargetAmounts, quick_year \in TargetAmounts :
         LET rows == targets_to_add(today, quick_week, quick_month,
                                    quick_quarter, quick_year)
         IN
         \/ \* a storage call raised after n of the four append_row calls
            \E n \in 0..3 :
               /\ Targets' = Targets \o SubSeq(rows, 1, n)
               /\ last' = Ran("QuickSetTargets", s, "error", "none")
               /\ UNCHANGED targets_data
         \/ /\ Targets' = Targets \o rows
            /\ \E okG \in Bool :
                 targets_data' = [targets_data EXCEPT ![s] = load_targets(okG)]
            /\ last' = Ran("QuickSetTargets", s, "ok", "none")

\* ---- Dashboard: week_target / month_target
\* a slip: the last matching row for the first
period_target_last(targets_df, current_year, period_type, current_number) ==
    LET matching == SelectSeq(targets_df.rows,
                        LAMBDA row : /\ row.Year = str(current_year)
                                     /\ row.Period_Type = period_type
                                     /\ row.Period_Number = str(current_number))
    IN IF matching # <<>> THEN matching[Len(matching)].Target_Amount ELSE 0

\* float(target['Target_Amount'].iloc[0]) if not target.empty else 0
period_target(targets_df, current_year, period_type, current_number) ==
    LET matching == SelectSeq(targets_df.rows,
                        LAMBDA row : /\ row.Year = str(current_year)
                                     /\ row.Period_Type = period_type
                                     /\ row.Period_Number = str(current_number))
    IN IF matching # <<>> THEN matching[1].Target_Amount ELSE 0

week_target(targets_df, today) ==
    period_target(targets_df, today.year, "Week", today.week)

month_target(targets_df, today) ==
    period_target(targets_df, today.year, "Month", today.month)

\* ---- rendering a page from the session's tables
\* How the script run of a page ends: the name of what it shows, or "KeyError" when
\* a column is looked up in a frame that has none and nothing catches the error.
dashboard_page(transactions, ledger_df, targets_df) ==
    IF transactions # <<>>
    THEN \* targets_df['Year'], line 286
         IF ~targets_df.columns THEN "KeyError" ELSE "metrics"
    ELSE "info"

payment_entry_page(ledger_df) ==
    IF ledger_df = <<>> THEN "warning"
    ELSE IF outstanding(ledger_df) = <<>> THEN "info" ELSE "form"

sales_ledger_page(ledger_df) == IF ledger_df # <<>> THEN "table" ELSE "info"

\* targets_df is only asked whether it is empty
targets_page(transactions, targets_df) ==
    IF targets_df.rows # <<>> THEN "forms and table" ELSE "forms"

edit_delete_page(transactions, ledger_df) ==
    <<IF transactions # <<>> THEN "selectbox" ELSE "info",
      IF ledger_df # <<>> THEN "selectbox" ELSE "info">>

reports_page(transactions, ledger_df) ==
    IF transactions # <<>> /\ ledger_df # <<>> THEN "summary" ELSE "tabs"

Pages == {"Dashboard", "Payment Entry", "Sales Ledger", "Targets", "Edit/Delete",
          "Reports"}

render(page, transactions, ledger_df, targets_df) ==
    CASE page = "Dashboard" -> dashboard_page(transactions, ledger_df, targets_df)
      [] page = "Payment Entry" -> payment_entry_page(ledger_df)
      [] page = "Sales Ledger" -> sales_ledger_page(ledger_df)
      [] page = "Targets" -> targets_page(transactions, targets_df)
      [] page = "Edit/Delete" -> edit_delete_page(transactions, ledger_df)
      [] page = "Reports" -> reports_page(transactions, ledger_df)

\* ---- Fix Sheets page
SheetNames == {"Transactions", "Sales_Ledger", "Targets"}

expected_trans ==
    <<"Transaction_ID", "Date", "Agent", "Location", "Client_ID",
      "Amount", "Payment_Type", "Phone", "Sale_ID", "Notes">>

expected_ledger ==
    <<"Sale_ID", "Client_ID", "Client_Name", "Phone", "Agent",
      "Location", "Total_Sale_Price", "Amount_Paid", "Balance",
      "Sale_Date", "Status", "Notes">>

expected_targets ==
    <<"Year", "Period_Type", "Period_Number", "Target_Amount", "Last_Updated", "Notes">>

expected_headers ==
    [sheet_name \in SheetNames |->
        CASE sheet_name = "Transactions" -> expected_trans
          [] sheet_name = "Sales_Ledger" -> expected_ledger
          [] sheet_name = "Targets" -> expected_targets]

\* a slip: the same names in any order
headers_match_any_order(actual, expected) ==
    /\ Len(actual) = Len(expected)
    /\ {actual[i] : i \in 1..Len(actual)} = {expected[i] : i \in 1..Len(expected)}

\* 'match': actual == expected, two Python lists of strings
headers_match(actual, expected) == actual = expected

\* the first k of the calls ws.update_cell(1, i, header), i = 1..len(expected)
update_header_cells(actual, expected, k) ==
    [i \in 1..(IF Len(actual) >= k THEN Len(actual) ELSE k) |->
        IF i <= k THEN expected[i] ELSE actual[i]]

\* the expander of one sheet: its status, and "Confirm Fix" when row 1 does not match
FixSheets(s) ==
    /\ s \in active
    /\ UNCHANGED <<bvars, active, Targets, targets_data, trans_df, suggested, actuals>>
    /\ \E sheet_name \in SheetNames :
         LET expected == expected_headers[sheet_name]
             match == headers_match(headers[sheet_name], expected)
             rec(op, outcome) ==
                 [Ran(op, s, outcome, "none") EXCEPT
                      !.sheet_name = sheet_name, !.match = match]
         IN
         \/ \* the status is shown
            /\ last' = rec("SheetStatus", "ok")
            /\ UNCHANGED headers
         \/ \* Confirm Fix: a storage call raised after k of the update_cell calls
            /\ ~match
            /\ \E k \in 0..(Len(expected) - 1) :
                 headers' = [headers EXCEPT
                     ![sheet_name] = update_header_cells(@, expected, k)]
            /\ last' = rec("FixHeaders", "error")
         \/ \* Confirm Fix: every cell written
            /\ ~match
            /\ headers' = [headers EXCEPT
                   ![sheet_name] = update_header_cells(@, expected, Len(expected))]
            /\ last' = rec("FixHeaders", "ok")

\* the header rows the page is tried on: the expected row, its first two names
\* exchanged, its last name missing, one name more, and an empty sheet
HeaderRows(expected) ==
    {expected,
     <<expected[2], expected[1]>> \o SubSeq(expected, 3, Len(expected)),
     SubSeq(expected, 1, Len(expected) - 1),
     Append(expected, "Extra"),
     <<>>}

\* ---- Edit/Delete page
\* a slip: every row from i on goes
delete_rows_to_end(all_data, i) == SubSeq(all_data, 1, i - 1)

\* ws.delete_rows(i), i as an index into the data rows
delete_rows(all_data, i) ==
    SubSeq(all_data, 1, i - 1) \o SubSeq(all_data, i + 1, Len(all_data))

\* the Display column of the Transactions tab
TransDisplay(row) == <<row.Transaction_ID, row.Amount>>

\* trans_df[trans_df['Display'] == to_delete].iloc[0]
selected_transaction_of(df, to_delete) ==
    df[CHOOSE i \in 1..Len(df) :
           /\ TransDisplay(df[i]) = to_delete
           /\ \A j \in 1..(i - 1) : TransDisplay(df[j]) # to_delete]

\* for i, row in enumerate(all_data[1:], start=2): if row[0] == Transaction_ID
find_transaction(all_data, transaction_id) ==
    IF \E i \in 1..Len(all_data) : all_data[i].Transaction_ID = transaction_id
    THEN CHOOSE i \in 1..Len(all_data) :
             /\ all_data[i].Transaction_ID = transaction_id
             /\ \A j \in 1..(i - 1) : all_data[j].Transaction_ID # transaction_id
    ELSE 0

DeleteTransaction(s) ==
    /\ s \in active
    /\ UNCHANGED tvars
    /\ transactions_data[s] # <<>>
    /\ \E to_delete \in {TransDisplay(transactions_data[s][k]) :
                              k \in 1..Len(transactions_data[s])} :
         LET selected == selected_transaction_of(transactions_data[s], to_delete)
             i == find_transaction(Transactions, selected.Transaction_ID)
             rec(outcome) ==
                 [Ran("DeleteTransaction", s, outcome, "none") EXCEPT
                      !.transaction_id = selected.Transaction_ID]
         IN
         /\ UNCHANGED <<Sales_Ledger, ledger_data, clock, txn_seq, active>>
         /\ \/ \* open_by_key / worksheet / get_all_values / delete_rows raised
               /\ last' = rec("error")
               /\ UNCHANGED <<Transactions, transactions_data>>
            \/ \* no storage call raised
               IF i = 0
               THEN \* the loop ends without a match: no message, nothing written
                    /\ last' = rec("nomatch")
                    /\ UNCHANGED <<Transactions, transactions_data>>
               ELSE /\ Transactions' = delete_rows(Transactions, i)
                    /\ \E okT \in Bool :
                         transactions_data' =
                             [transactions_data EXCEPT ![s] = load_transactions(okT)]
                    /\ last' = rec("ok")

\* the Display column of the Sales Ledger tab
SaleDisplay(row) == <<row.Sale_ID, row.Client_Name, row.Total_Sale_Price>>

\* ledger_df[ledger_df['Display'] == to_delete].iloc[0]
selected_ledger_row_of(ledger_df, to_delete) ==
    ledger_df[CHOOSE i \in 1..Len(ledger_df) :
                  /\ SaleDisplay(ledger_df[i]) = to_delete
                  /\ \A j \in 1..(i - 1) : SaleDisplay(ledger_df[j]) # to_delete]

DeleteSale(s) ==
    /\ s \in active
    /\ UNCHANGED tvars
    /\ ledger_data[s] # <<>>
    /\ \E to_delete \in {SaleDisplay(ledger_data[s][k]) :
                              k \in 1..Len(ledger_data[s])} :
         LET selected == selected_ledger_row_of(ledger_data[s], to_delete)
             i == find_row(Sales_Ledger, selected.Sale_ID)
             rec(outcome) ==
                 [Ran("DeleteSale", s, outcome, "none") EXCEPT
                      !.sale_id = selected.Sale_ID]
         IN
         /\ UNCHANGED <<Transactions, transactions_data, clock, txn_seq, active>>
         /\ \/ \* open_by_key / worksheet / get_all_values / delete_rows raised
               /\ last' = rec("error")
               /\ UNCHANGED <<Sales_Ledger, ledger_data>>
            \/ \* no storage call raised
               IF i = 0
               THEN \* the loop ends without a match: no message, nothing written
                    /\ last' = rec("nomatch")
                    /\ UNCHANGED <<Sales_Ledger, ledger_data>>
               ELSE /\ Sales_Ledger' = delete_rows(Sales_Ledger, i)
                    /\ \E okL \in Bool :
                         ledger_data' =
                             [ledger_data EXCEPT ![s] = load_sales_ledger(okL)]
                    /\ last' = rec("ok")

Init ==
    /\ Sales_Ledger = <<>>
    /\ Transactions = <<>>
    /\ ledger_data = [s \in Sessions |-> <<>>]
    /\ transactions_data = [s \in Sessions |-> <<>>]
    /\ clock = 0
    /\ txn_seq = 0
    /\ active = {"s1"}
    /\ last = NoOp
    /\ Targets = <<>>
    /\ targets_data = [s \in Sessions |-> [columns |-> TRUE, rows |-> <<>>]]
    /\ trans_df = <<>>
    /\ suggested = NoSuggestion
    /\ actuals = NoActuals
    /\ headers = expected_headers

Next ==
    \E s \in Sessions :
        \/ CreateSale(s)
        \/ ImportHistoricalSale(s)
        \/ RecordPayment(s)
        \/ RefreshData(s)

Spec == Init /\ [][Next]_vars

\* The Edit/Delete page at work on the tables that sales and imports fill.
NextEdit ==
    \E s \in Sessions :
        \/ CreateSaleAccepted(s)
        \/ ImportAccepted(s)
        \/ RefreshData(s)
        \/ DeleteTransaction(s)
        \/ DeleteSale(s)

SpecEdit == Init /\ [][NextEdit]_vars

\* The Targets page at work on the Targets worksheet.
NextTargets ==
    \E s \in Sessions :
        \/ SaveTarget(s)
        \/ QuickSetTargets(s)
        \/ RefreshData(s)

SpecTargets == Init /\ [][NextTargets]_vars

\* The Fix Sheets page on worksheets whose row 1 was edited outside the
\* application, each worksheet holding one data row.
InitFix ==
    /\ Sales_Ledger = <<ledger_row(sale_id_of("SALE", 0), "A", "P", 1, 0, 1,
                                    "Installment Plan", "")>>
    /\ Transactions = <<trans_row(1, 1, "Installment", "P", sale_id_of("SALE", 0))>>
    /\ ledger_data = [s \in Sessions |-> <<>>]
    /\ transactions_data = [s \in Sessions |-> <<>>]
    /\ clock = 0
    /\ txn_seq = 1
    /\ active = {"s1"}
    /\ last = NoOp
    /\ Targets = <<target_row(2025, "Week", 1, 1)>>
    /\ targets_data = [s \in Sessions |-> [columns |-> TRUE, rows |-> <<>>]]
    /\ trans_df = <<>>
    /\ suggested = NoSuggestion
    /\ actuals = NoActuals
    /\ headers \in [SheetNames -> UNION {HeaderRows(expected_headers[n]) : n \in SheetNames}]
    /\ \A n \in SheetNames : headers[n] \in HeaderRows(expected_headers[n])

NextFix == \E s \in Sessions : FixSheets(s)

SpecFix == InitFix /\ [][NextFix]_vars

\* calculate_suggested_targets on every frame of at most MaxRows rows.
InitSuggest ==
    /\ Sales_Ledger = <<>>
    /\ Transactions = <<>>
    /\ ledger_data = [s \in Sessions |-> <<>>]
    /\ transactions_data = [s \in Sessions |-> <<>>]
    /\ clock = 0
    /\ txn_seq = 0
    /\ active = {"s1"}
    /\ last = NoOp
    /\ Targets = <<>>
    /\ targets_data = [s \in Sessions |-> [columns |-> TRUE, rows |-> <<>>]]
    /\ trans_df \in Frames(MaxRows)
    /\ suggested = NoSuggestion
    /\ actuals = NoActuals
    /\ headers = expected_headers

NextSuggest == SuggestTargets

SpecSuggest == InitSuggest /\ [][NextSuggest]_vars

\* The dashboard's sums as a function of the transactions and the day.
InitDash ==
    /\ Sales_Ledger = <<>>
    /\ Transactions = <<>>
    /\ ledger_data = [s \in Sessions |-> <<>>]
    /\ transactions_data = [s \in Sessions |-> <<>>]
    /\ clock = 0
    /\ txn_seq = 0
    /\ active = {"s1"}
    /\ last = NoOp
    /\ Targets = <<>>
    /\ targets_data = [s \in Sessions |-> [columns |-> TRUE, rows |-> <<>>]]
    /\ trans_df \in DashboardFrames(MaxDashRows)
    /\ suggested = NoSuggestion
    /\ actuals = NoActuals
    /\ headers = expected_headers

NextDash == Dashboard

SpecDash == InitDash /\ [][NextDash]_vars

\* Two browser sessions on one spreadsheet: a sale is stored, on an installment
\* plan with nothing paid, and each session has loaded the ledger at its start.
InitTwo ==
    /\ Sales_Ledger = <<ledger_row(sale_id_of("SALE", 0), "A", "P", MaxPrice, 0,
                                    MaxPrice, "Installment Plan", "")>>
    /\ Transactions = <<>>
    /\ ledger_data = [s \in Sessions |-> Sales_Ledger]
    /\ transactions_data = [s \in Sessions |-> <<>>]
    /\ clock = 0
    /\ txn_seq = 0
    /\ active = Sessions
    /\ last = NoOp
    /\ Targets = <<>>
    /\ targets_data = [s \in Sessions |-> [columns |-> TRUE, rows |-> <<>>]]
    /\ trans_df = <<>>
    /\ suggested = NoSuggestion
    /\ actuals = NoActuals
    /\ headers = expected_headers

NextTwo ==
    \E s \in Sessions :
        \/ RecordPayment(s)
        \/ RefreshData(s)
        \/ DeleteSale(s)

SpecTwo == InitTwo /\ [][NextTwo]_vars
(***************************************************************************)
(* Properties                                                              *)
(***************************************************************************)
Store == <<Sales_Ledger, Transactions>>

LastRow(seq) == seq[Len(seq)]

\* The step is a run of handler `op` that ended with `outcome` and wrote to the store.
Wrote(op, outcome) ==
    /\ last'.op = op /\ last'.outcome = outcome
    /\ Store' # Store

\* ---- C1
\* C1: after a CreateSale that passed validation and completed, the row appended to
\* Sales_Ledger carries the new Sale_ID, balance = total_price - initial_payment, and
\* status "Fully Paid" exactly when that balance is 0, "Installment Plan" otherwise;
\* the inputs satisfied 0 <= initial_payment <= total_price.
C1_CreateSaleBalanceStatus ==
    (last.op = "CreateSale" /\ last.outcome = "ok") =>
        /\ 0 <= last.amount /\ last.amount <= last.total
        /\ Sales_Ledger # <<>>
        /\ LET row == LastRow(Sales_Ledger) IN
           /\ row.Sale_ID = last.sale_id
           /\ row.Client_Name # "" /\ row.Phone # ""
           /\ row.Total_Sale_Price = last.total
           /\ row.Balance = last.total - last.amount
           /\ row.Status \in {"Fully Paid", "Installment Plan"}
           /\ row.Status = "Fully Paid" <=> row.Balance = 0

\* Both outcomes of C1 have happened: a sale paid in full at creation and, before
\* it, a sale left on an installment plan.
C1_Witness ==
    /\ last.op = "CreateSale" /\ last.outcome = "ok"
    /\ last.total = MaxPrice /\ last.amount = MaxPrice
    /\ Len(Sales_Ledger) = 2
    /\ LastRow(Sales_Ledger).Status = "Fully Paid"
    /\ Sales_Ledger[1].Status = "Installment Plan"
    /\ Sales_Ledger[1].Balance > 0

\* ---- C2
\* C2: a CreateSale that completes appends exactly one Sales_Ledger row; with
\* initial_payment = 0 it leaves Transactions as it was, and with initial_payment > 0
\* it appends exactly one Transactions row, of Payment_Type "New Sale", with
\* Amount = initial_payment and the Sale_ID of the new sale.
C2_CreateSaleTransaction ==
    [][Wrote("CreateSale", "ok") =>
          /\ Len(Sales_Ledger') = Len(Sales_Ledger) + 1
          /\ IF last'.amount = 0
             THEN Transactions' = Transactions
             ELSE /\ Len(Transactions') = Len(Transactions) + 1
                  /\ SubSeq(Transactions', 1, Len(Transactions)) = Transactions
                  /\ LastRow(Transactions').Payment_Type = "New Sale"
                  /\ LastRow(Transactions').Amount = last'.amount
                  /\ LastRow(Transactions').Sale_ID = last'.sale_id
                  /\ LastRow(Transactions').Sale_ID = LastRow(Sales_Ledger').Sale_ID
      ]_vars

\* A sale with a positive initial payment was created after one with none: the
\* table holds the one "New Sale" transaction of the second sale only.
C2_Witness ==
    /\ last.op = "CreateSale" /\ last.outcome = "ok" /\ last.amount > 0
    /\ Len(Sales_Ledger) = 2
    /\ Sales_Ledger[1].Amount_Paid = 0
    /\ Len(Transactions) = 1
    /\ Transactions[1].Payment_Type = "New Sale"
    /\ Transactions[1].Sale_ID = Sales_Ledger[2].Sale_ID

\* ---- C3
\* C3: an ImportHistoricalSale run never changes Transactions; a run that appends a
\* sale appends exactly one row, with status "Installment Plan" and
\* balance = total_price - amount_already_paid > 0; a run with
\* amount_already_paid >= total_price is rejected (no accepted run has such inputs)
\* and a rejected run writes nothing.
C3_ImportNoTransaction ==
    [][/\ last'.op = "ImportHistoricalSale" /\ last' # last =>
            Transactions' = Transactions
       /\ Wrote("ImportHistoricalSale", "ok") =>
            /\ Transactions' = Transactions
            /\ Sales_Ledger' = Append(Sales_Ledger, LastRow(Sales_Ledger'))
            /\ LastRow(Sales_Ledger').Sale_ID = last'.sale_id
            /\ LastRow(Sales_Ledger').Status = "Installment Plan"
            /\ LastRow(Sales_Ledger').Balance = last'.total - last'.amount
            /\ LastRow(Sales_Ledger').Balance > 0
            /\ last'.amount < last'.total
       /\ (last'.op = "ImportHistoricalSale" /\ last'.outcome = "rejected") =>
            UNCHANGED Store
      ]_vars

\* An import with part of the price already paid has been accepted while the
\* table held a transaction, which it left alone.
C3_Witness ==
    /\ last.op = "ImportHistoricalSale" /\ last.outcome = "ok"
    /\ last.amount > 0
    /\ LastRow(Sales_Ledger).Notes = "[HISTORICAL IMPORT]"
    /\ LastRow(Sales_Ledger).Amount_Paid = last.amount
    /\ Len(Transactions) = 1

\* ---- RecordPayment, as the claims speak of it
\* The Sales_Ledger row the payment is recorded against: the first row carrying the
\* Sale_ID of the sale selected in the form, 0 when the table has none.
PaidRow == find_row(Sales_Ledger, last'.sale_id)

\* No two rows of the table carry the same Sale_ID, so that "the sale" a payment is
\* recorded against is one row.
DistinctSaleIds(all_ledger) ==
    \A j, k \in 1..Len(all_ledger) :
        all_ledger[j].Sale_ID = all_ledger[k].Sale_ID => j = k

\* The step is a RecordPayment run that got as far as appending its transaction.
PaymentRan == last'.op = "RecordPayment" /\ Transactions' # Transactions

PaymentOk == PaymentRan /\ last'.outcome = "ok"

\* ---- C4
\* C4: a successful RecordPayment of p on a sale whose stored balance is B, with
\* 0 < p <= B, leaves the stored balance at B - p and the stored status "Fully Paid"
\* if and only if that balance is 0 (the step of the claim's p1..pn sequence; stated
\* for tables whose Sale_IDs are distinct).
C4_PaymentReducesBalance ==
    [][(PaymentOk /\ PaidRow # 0 /\ DistinctSaleIds(Sales_Ledger)
          /\ 0 < last'.amount /\ last'.amount <= Sales_Ledger[PaidRow].Balance) =>
          /\ Sales_Ledger'[PaidRow].Balance = Sales_Ledger[PaidRow].Balance - last'.amount
          /\ Sales_Ledger'[PaidRow].Status = "Fully Paid"
                <=> Sales_Ledger'[PaidRow].Balance = 0
      ]_vars

\* ---- C5
\* C5: a RecordPayment whose payment_amount is <= 0, or exceeds the balance stored in
\* Sales_Ledger for the sale, or whose sale is stored as "Fully Paid", is rejected
\* and leaves Transactions and Sales_Ledger unchanged (stated for tables whose
\* Sale_IDs are distinct).
C5_PaymentRejectedBeyondStoredBalance ==
    [][(last'.op = "RecordPayment" /\ (last' # last \/ Store' # Store)
          /\ DistinctSaleIds(Sales_Ledger)
          /\ \/ last'.amount <= 0
             \/ /\ PaidRow # 0
                /\ \/ last'.amount > Sales_Ledger[PaidRow].Balance
                   \/ Sales_Ledger[PaidRow].Status = "Fully Paid") =>
          /\ last'.outcome = "rejected"
          /\ UNCHANGED Store
      ]_vars

\* ---- C6
\* C6: a successful RecordPayment of a on a sale with stored balance >= a appends
\* exactly one Transactions row, an "Installment" of amount a for that sale, and
\* changes exactly one Sales_Ledger row, whose balance it reduces by a (so two in a
\* row reduce it by 2a and leave two transactions; stated for tables whose Sale_IDs
\* are distinct).
C6_PaymentOneTransactionOneRow ==
    [][(PaymentOk /\ PaidRow # 0 /\ DistinctSaleIds(Sales_Ledger)
          /\ last'.amount <= Sales_Ledger[PaidRow].Balance) =>
          /\ Transactions' = Append(Transactions, LastRow(Transactions'))
          /\ LastRow(Transactions').Payment_Type = "Installment"
          /\ LastRow(Transactions').Amount = last'.amount
          /\ LastRow(Transactions').Sale_ID = last'.sale_id
          /\ Len(Sales_Ledger') = Len(Sales_Ledger)
          /\ {k \in 1..Len(Sales_Ledger) : Sales_Ledger'[k] # Sales_Ledger[k]} = {PaidRow}
          /\ Sales_Ledger'[PaidRow].Balance = Sales_Ledger[PaidRow].Balance - last'.amount
      ]_vars

\* ---- C7
\* C7: every Sales_Ledger row has balance = total_sale_price - amount_paid, in every
\* state left by a handler, completed or aborted.
C7_BalanceIsTotalMinusPaid ==
    \A k \in 1..Len(Sales_Ledger) :
        Sales_Ledger[k].Balance =
            Sales_Ledger[k].Total_Sale_Price - Sales_Ledger[k].Amount_Paid

\* ---- C8
\* C8: every Sales_Ledger row has status "Fully Paid" if and only if its balance is 0,
\* in every state left by a handler, completed or aborted.
C8_FullyPaidIffZeroBalance ==
    \A k \in 1..Len(Sales_Ledger) :
        Sales_Ledger[k].Status = "Fully Paid" <=> Sales_Ledger[k].Balance = 0

\* ---- C9
\* C9: no Sales_Ledger row ever has a negative balance (stated for tables whose
\* Sale_IDs are distinct).
C9_BalanceNeverNegative ==
    DistinctSaleIds(Sales_Ledger) =>
    \A k \in 1..Len(Sales_Ledger) : Sales_Ledger[k].Balance >= 0

\* ---- C10
\* C10: the status of a stored sale changes only from "Installment Plan" to
\* "Fully Paid", and only in a successful RecordPayment that leaves its balance 0;
\* a sale stored as "Fully Paid" keeps its status, amount_paid and balance.
C10_StatusOnlyToFullyPaid ==
    [][\A k \in 1..Len(Sales_Ledger) :
          /\ k <= Len(Sales_Ledger')
          /\ Sales_Ledger'[k].Status # Sales_Ledger[k].Status =>
                /\ Sales_Ledger[k].Status = "Installment Plan"
                /\ Sales_Ledger'[k].Status = "Fully Paid"
                /\ PaymentOk
                /\ Sales_Ledger'[k].Balance = 0
          /\ Sales_Ledger[k].Status = "Fully Paid" =>
                /\ Sales_Ledger'[k].Status = "Fully Paid"
                /\ Sales_Ledger'[k].Amount_Paid = Sales_Ledger[k].Amount_Paid
                /\ Sales_Ledger'[k].Balance = Sales_Ledger[k].Balance
      ]_vars

\* ---- C11
\* C11: no handler run writes to a stored sale an amount_paid smaller than the one
\* already stored for it, repeated payments and a retry after an aborted payment
\* included (stated for tables whose Sale_IDs are distinct).
C11_AmountPaidNeverDecreases ==
    [][DistinctSaleIds(Sales_Ledger) =>
          \A k \in 1..Len(Sales_Ledger) :
              /\ k <= Len(Sales_Ledger')
              /\ Sales_Ledger'[k].Amount_Paid >= Sales_Ledger[k].Amount_Paid
      ]_vars

\* ---- C12
\* The step appended a sale through handler `op`.
Created(op) ==
    /\ last.op = op /\ last.outcome \in {"ok", "error"}
    /\ last.fail \in {"none", "ledger"}

\* C12 as the claim states it: right after its creation a sale's amount_paid is
\* initial_payment when CreateSale made it and 0 when ImportHistoricalSale made it.
C12_InitialAmountPaidZeroOnImport ==
    /\ Created("CreateSale") => LastRow(Sales_Ledger).Amount_Paid = last.amount
    /\ Created("ImportHistoricalSale") => LastRow(Sales_Ledger).Amount_Paid = 0

\* C12, amended: right after its creation a sale's amount_paid is initial_payment
\* when CreateSale made it and amount_already_paid, which is below total_price and
\* may be positive, when ImportHistoricalSale made it; the balance is the rest.
C12_InitialAmountPaid ==
    /\ Created("CreateSale") =>
          /\ LastRow(Sales_Ledger).Amount_Paid = last.amount
          /\ LastRow(Sales_Ledger).Balance = last.total - last.amount
    /\ Created("ImportHistoricalSale") =>
          /\ LastRow(Sales_Ledger).Amount_Paid = last.amount
          /\ LastRow(Sales_Ledger).Amount_Paid < last.total
          /\ LastRow(Sales_Ledger).Balance = last.total - last.amount

\* A sale imported with a positive amount already paid follows a sale created with
\* its price paid in full.
C12_Witness ==
    /\ Created("ImportHistoricalSale")
    /\ last.amount = 1 /\ last.total = MaxPrice
    /\ Len(Sales_Ledger) = 2
    /\ Sales_Ledger[1].Notes = "" /\ Sales_Ledger[1].Amount_Paid = MaxPrice
    /\ Sales_Ledger[2].Amount_Paid = 1

\* ---- C13
\* `after` is `before` with its row i taken out and the rows behind it moved up.
RowRemoved(before, after, i) ==
    /\ i \in 1..Len(before)
    /\ Len(after) = Len(before) - 1
    /\ \A j \in 1..(i - 1) : after[j] = before[j]
    /\ \A j \in i..Len(after) : after[j] = before[j + 1]

\* C13: a DeleteTransaction run leaves Sales_Ledger as it was and either leaves
\* Transactions as it was or removes exactly one row, the first whose Transaction_ID
\* is the selected one; a DeleteSale run leaves Transactions as it was, rows of the
\* deleted sale included, and either leaves Sales_Ledger as it was or removes exactly
\* one row, the first whose Sale_ID is the selected one.
C13_DeleteNotCascading ==
    [][/\ last'.op = "DeleteTransaction" =>
            /\ Sales_Ledger' = Sales_Ledger
            /\ \/ Transactions' = Transactions
               \/ \E i \in 1..Len(Transactions) :
                    /\ RowRemoved(Transactions, Transactions', i)
                    /\ Transactions[i].Transaction_ID = last'.transaction_id
                    /\ \A j \in 1..(i - 1) :
                         Transactions[j].Transaction_ID # last'.transaction_id
       /\ last'.op = "DeleteSale" =>
            /\ Transactions' = Transactions
            /\ \/ Sales_Ledger' = Sales_Ledger
               \/ \E i \in 1..Len(Sales_Ledger) :
                    /\ RowRemoved(Sales_Ledger, Sales_Ledger', i)
                    /\ Sales_Ledger[i].Sale_ID = last'.sale_id
                    /\ \A j \in 1..(i - 1) : Sales_Ledger[j].Sale_ID # last'.sale_id
      ]_vars

\* A sale has just been deleted while another stays; the "New Sale" transaction of
\* the deleted sale is still in Transactions, and an earlier transaction was deleted
\* without touching the ledger.
C13_Witness ==
    /\ last.op = "DeleteSale" /\ last.outcome = "ok"
    /\ Len(Sales_Ledger) = 1
    /\ Sales_Ledger[1].Sale_ID # last.sale_id
    /\ Len(Transactions) = 1
    /\ Transactions[1].Sale_ID = last.sale_id
    /\ txn_seq = 2

\* ---- C14
\* The rows of the frame dated at or after `t`, by position.
DatedSince(df, t) == {k \in 1..Len(df) : ~df[k].Date.NaT /\ df[k].Date.t >= t}

RECURSIVE SumOver(_, _)
SumOver(df, ks) ==
    IF ks = {} THEN 0
    ELSE LET k == CHOOSE x \in ks : TRUE IN df[k].Amount + SumOver(df, ks \ {k})

Caches == <<ledger_data, transactions_data, targets_data>>

\* C15: a CreateSale or ImportHistoricalSale submission that fails validation
\* (client_name or phone empty, the amount paid above total_price) is rejected before
\* any write: the run leaves the three worksheets and the cached tables as they
\* were, and every sale that is appended has a client name, a phone and an amount
\* paid that is at most its price.
C15_RejectedBeforeAnyWrite ==
    [][/\ (last'.op \in {"CreateSale", "ImportHistoricalSale"}
             /\ last'.outcome = "rejected") =>
            /\ UNCHANGED <<Store, Targets>>
            /\ UNCHANGED Caches
       /\ Len(Sales_Ledger') > Len(Sales_Ledger) =>
            /\ LastRow(Sales_Ledger').Client_Name # ""
            /\ LastRow(Sales_Ledger').Phone # ""
            /\ LastRow(Sales_Ledger').Amount_Paid <= LastRow(Sales_Ledger').Total_Sale_Price
      ]_vars

\* A CreateSale whose initial payment exceeds the price has just been rejected,
\* with a sale and its transaction stored and cached.
C15_Witness ==
    /\ last.op = "CreateSale" /\ last.outcome = "rejected" /\ last.fail = "exceeds"
    /\ Len(Sales_Ledger) = 1 /\ Len(Transactions) = 1
    /\ ledger_data["s1"] = Sales_Ledger
    /\ transactions_data["s1"] = Transactions

\* ---- C16
\* C16: a CreateSale or RecordPayment run in which a record-store call fails leaves
\* Sales_Ledger and Transactions as they were before the run.
C16_NoPartialStateOnStorageError ==
    [][(last'.op \in {"CreateSale", "RecordPayment"} /\ last'.outcome = "error") =>
          UNCHANGED Store
      ]_vars

\* ---- C17
\* The rows of the Targets worksheet for one period, by position.
RowsFor(targets, year, period_type, number) ==
    {k \in 1..Len(targets) :
        /\ to_numeric(targets[k].Year) = year
        /\ targets[k].Period_Type = period_type
        /\ to_numeric(targets[k].Period_Number) = number}

\* The session's table is the worksheet as a successful load returns it.
TargetsLoaded(s) ==
    /\ targets_data[s].columns
    /\ Len(targets_data[s].rows) = Len(Targets)
    /\ \A k \in 1..Len(Targets) :
         targets_data[s].rows[k].Year = Targets[k].Year
         /\ targets_data[s].rows[k].Period_Type = Targets[k].Period_Type
         /\ targets_data[s].rows[k].Period_Number = Targets[k].Period_Number
         /\ targets_data[s].rows[k].Target_Amount = to_numeric(Targets[k].Target_Amount)

\* C17: a run of either target form only appends to Targets, existing rows staying
\* as and where they are (so a period may come to have several rows); and the week
\* and month targets the dashboard takes from a loaded table are the amount of the
\* first row of the period in table order, so that once a period has a row, saving
\* another for it does not change the target displayed.
C17_TargetsAppendOnlyFirstMatch ==
    [][/\ Len(Targets') >= Len(Targets)
       /\ SubSeq(Targets', 1, Len(Targets)) = Targets
       /\ \A s \in active, today \in Todays :
            (TargetsLoaded(s) /\ TargetsLoaded(s)') =>
               /\ RowsFor(Targets, today.year, "Week", today.week) # {} =>
                     week_target(targets_data[s]', today) = week_target(targets_data[s], today)
               /\ RowsFor(Targets, today.year, "Month", today.month) # {} =>
                     month_target(targets_data[s]', today) = month_target(targets_data[s], today)
               /\ \A k \in RowsFor(Targets', today.year, "Week", today.week) :
                     (\A j \in RowsFor(Targets', today.year, "Week", today.week) : k <= j)
                        => week_target(targets_data[s]', today) =
                              to_numeric(Targets'[k].Target_Amount)
      ]_vars

\* The individual form has just saved a second target, of another amount, for the
\* current week, which Quick Set had already given one; the dashboard still takes
\* the first.
C17_Witness ==
    /\ last.op = "SaveTarget" /\ last.outcome = "ok"
    /\ Len(Targets) = 5
    /\ RowsFor(Targets, 2025, "Week", 1) = {1, 5}
    /\ Targets[1].Target_Amount # Targets[5].Target_Amount
    /\ TargetsLoaded("s1")
    /\ week_target(targets_data["s1"], [year |-> 2025, week |-> 1, month |-> 1,
                                        quarter |-> 1])
          = to_numeric(Targets[1].Target_Amount)

\* ---- C18
\* C18: the header check of a worksheet reports a match only when its row 1 has as
\* many cells as the expected list and the same name in every position; a header
\* repair of a worksheet leaves the data rows of all three worksheets and row 1 of
\* the other two as they were, and in row 1 of its own worksheet changes only cells
\* in columns 1..n, n the number of expected headers, each of them to the expected
\* name.
C18_HeaderCheckAndRepair ==
    [][/\ last'.op \in {"SheetStatus", "FixHeaders"} =>
            LET row1 == headers[last'.sheet_name]
                expected == expected_headers[last'.sheet_name]
            IN last'.match =>
                  /\ Len(row1) = Len(expected)
                  /\ \A i \in 1..Len(expected) : row1[i] = expected[i]
       /\ last'.op = "FixHeaders" =>
            LET n == Len(expected_headers[last'.sheet_name])
                before == headers[last'.sheet_name]
                after == headers'[last'.sheet_name]
            IN
            /\ UNCHANGED <<Sales_Ledger, Transactions, Targets>>
            /\ \A other \in SheetNames \ {last'.sheet_name} :
                  headers'[other] = headers[other]
            /\ Len(after) >= Len(before)
            /\ \A i \in 1..Len(after) :
                  \/ i <= Len(before) /\ after[i] = before[i]
                  \/ i <= n /\ after[i] = expected_headers[last'.sheet_name][i]
      ]_vars

\* The Sales_Ledger header, found with its first two names exchanged, has just been
\* repaired and is the expected list; the Targets header, one name too long, is as
\* it was found; every worksheet still holds its data row.
C18_Witness ==
    /\ last.op = "FixHeaders" /\ last.outcome = "ok" /\ last.sheet_name = "Sales_Ledger"
    /\ ~last.match
    /\ headers["Sales_Ledger"] = expected_ledger
    /\ headers["Targets"] = Append(expected_targets, "Extra")
    /\ Len(Sales_Ledger) = 1 /\ Len(Transactions) = 1 /\ Len(Targets) = 1

\* ---- C19
\* C19: whatever the loads of the three tables returned, each succeeding or
\* failing, rendering any page from the session's tables ends in a message or in
\* its normal output, never in an error that nothing catches.
C19_NoUncaughtError ==
    \A s \in active, page \in Pages :
        render(page, transactions_data[s], ledger_data[s], targets_data[s]) # "KeyError"

\* ---- C20
\* The step changed the payment cells of the stored sale in row k.
CellsChanged(k) ==
    /\ k <= Len(Sales_Ledger')
    /\ \/ Sales_Ledger'[k].Amount_Paid # Sales_Ledger[k].Amount_Paid
       \/ Sales_Ledger'[k].Balance # Sales_Ledger[k].Balance
       \/ Sales_Ledger'[k].Status # Sales_Ledger[k].Status

\* C20: a run that changes a payment cell of a stored sale is a RecordPayment run
\* that has appended its Installment transaction, whatever became of the cell writes
\* after it: the transaction is the one row added to Transactions, it carries the
\* amount paid, the Sale_ID of the sale whose row is written and the phone of the
\* selected sale, and the amount_paid written is the selected sale's plus that
\* amount; so no stored amount_paid takes in a payment that has no Installment
\* transaction.
C20_TransactionBeforeCells ==
    [][\A k \in 1..Len(Sales_Ledger) :
          CellsChanged(k) =>
             /\ last'.op = "RecordPayment"
             /\ Transactions' = Append(Transactions, LastRow(Transactions'))
             /\ LastRow(Transactions').Payment_Type = "Installment"
             /\ LastRow(Transactions').Amount = last'.amount
             /\ LastRow(Transactions').Amount > 0
             /\ LastRow(Transactions').Sale_ID = Sales_Ledger[k].Sale_ID
             /\ LastRow(Transactions').Sale_ID = last'.selected.Sale_ID
             /\ LastRow(Transactions').Phone = last'.selected.Phone
             /\ LastRow(Transactions').Phone # ""
             /\ Sales_Ledger'[k].Amount_Paid # Sales_Ledger[k].Amount_Paid =>
                   Sales_Ledger'[k].Amount_Paid =
                       last'.selected.Amount_Paid + LastRow(Transactions').Amount
      ]_vars

\* A payment was cut short after its first cell write: the stored amount_paid has
\* taken the payment in and the Installment transaction for it is in Transactions,
\* behind the sale's "New Sale" transaction.
C20_Witness ==
    /\ last.op = "RecordPayment" /\ last.outcome = "error" /\ last.fail = "cells1"
    /\ Len(Sales_Ledger) = 1
    /\ Sales_Ledger[1].Amount_Paid = last.selected.Amount_Paid + last.amount
    /\ Sales_Ledger[1].Balance = last.selected.Balance
    /\ Len(Transactions) = 2
    /\ Transactions[1].Payment_Type = "New Sale"
    /\ Transactions[2].Payment_Type = "Installment"
    /\ Transactions[2].Amount = last.amount
    /\ Transactions[2].Sale_ID = Sales_Ledger[1].Sale_ID

\* ---- C21
\* The step is a RecordPayment run that appended its transaction and then either
\* found no row with the selected Sale_ID or was cut short by a storage error.
PaymentDiverged ==
    /\ PaymentRan
    /\ \/ PaidRow = 0
       \/ last'.outcome = "error"

\* The one row added to Transactions is the Installment of the run.
InstallmentAppended ==
    /\ Transactions' = Append(Transactions, LastRow(Transactions'))
    /\ LastRow(Transactions').Payment_Type = "Installment"
    /\ LastRow(Transactions').Amount = last'.amount
    /\ LastRow(Transactions').Sale_ID = last'.sale_id

C22_LedgerRowBeforeTransaction ==
    [][last'.op = "CreateSale" =>
          /\ Transactions' # Transactions =>
                /\ Sales_Ledger' = Append(Sales_Ledger, LastRow(Sales_Ledger'))
                /\ LastRow(Sales_Ledger').Sale_ID = LastRow(Transactions').Sale_ID
          /\ (last'.outcome = "error" /\ last'.amount > 0 /\ Store' # Store) =>
                /\ Sales_Ledger' = Append(Sales_Ledger, LastRow(Sales_Ledger'))
                /\ LastRow(Sales_Ledger').Sale_ID = last'.sale_id
                /\ LastRow(Sales_Ledger').Amount_Paid = last'.amount
                /\ Transactions' = Transactions
          /\ (Sales_Ledger' # Sales_Ledger /\ last'.amount > 0
                /\ Transactions' = Transactions) => last'.outcome = "error"
      ]_vars

\* A CreateSale with a positive initial payment has just failed at the transaction:
\* the sale is stored with that amount paid and no transaction carries its Sale_ID.
C22_Witness ==
    /\ last.op = "CreateSale" /\ last.outcome = "error" /\ last.amount > 0
    /\ Sales_Ledger # <<>>
    /\ LastRow(Sales_Ledger).Sale_ID = last.sale_id
    /\ LastRow(Sales_Ledger).Amount_Paid = last.amount
    /\ \A k \in 1..Len(Transactions) : Transactions[k].Sale_ID # last.sale_id

\* ---- C23
\* C23: a handler run that completed and wrote to a worksheet leaves the session's
\* cached copy of each table it wrote equal to the stored table; and a RecordPayment
\* run starts with the selected sale's cached amount_paid, balance and total equal
\* to those of the stored row with its Sale_ID (stated for tables whose Sale_IDs are
\* distinct).
C23_CacheEqualsStore ==
    [][/\ (last'.outcome = "ok" /\ Store' # Store) =>
            /\ Sales_Ledger' # Sales_Ledger =>
                  ledger_data'[last'.session] = Sales_Ledger'
            /\ Transactions' # Transactions =>
                  transactions_data'[last'.session] = Transactions'
       /\ (PaymentRan /\ PaidRow # 0 /\ DistinctSaleIds(Sales_Ledger)) =>
            /\ last'.selected.Amount_Paid = Sales_Ledger[PaidRow].Amount_Paid
            /\ last'.selected.Balance = Sales_Ledger[PaidRow].Balance
            /\ last'.selected.Total_Sale_Price = Sales_Ledger[PaidRow].Total_Sale_Price
      ]_vars

\* ---- C25
\* C25: for a non-empty frame with no row dated at or after now - 90 days,
\* calculate_suggested_targets takes avg_monthly = S / 3 with S the sum of all
\* amounts, and returns Week = avg_monthly / 4 = S/12, Month = avg_monthly * 1.1 =
\* 11S/30, Quarter = avg_monthly * 3 * 1.1 = 11S/10, Year = avg_monthly * 12 * 1.1 =
\* 44S/10, as exact amounts; the defaults are returned for the empty frame only.
C25_StaleFrameFallsBackToAllRows ==
    suggested.done =>
        LET ks == DatedSince(trans_df, suggested.now - timedelta(DaysBack))
            S == SumOver(trans_df, 1..Len(trans_df))
            r == suggested.result
        IN
        /\ (trans_df # <<>> /\ ks = {}) =>
              /\ r.Week[1] * 12 = S * r.Week[2]
              /\ r.Month[1] * 30 = 11 * S * r.Month[2]
              /\ r.Quarter[1] * 10 = 11 * S * r.Quarter[2]
              /\ r.Year[1] * 10 = 44 * S * r.Year[2]
        /\ r = default_targets => trans_df = <<>>

\* A frame of two rows, one dated 91 days back and one with no date, both with an
\* amount, none recent: the sum of all is 9,000,000 and the result is 750,000 /
\* 3,300,000 / 9,900,000 / 39,600,000.
C25_Witness ==
    /\ suggested.done
    /\ Len(trans_df) = 2
    /\ DatedSince(trans_df, suggested.now - timedelta(DaysBack)) = {}
    /\ \E k \in 1..2 : trans_df[k].Date.NaT /\ trans_df[k].Amount > 0
    /\ \E k \in 1..2 : ~trans_df[k].Date.NaT /\ trans_df[k].Amount > 0
    /\ suggested.result = [Week |-> <<750000, 1>>, Month |-> <<3300000, 1>>,
                           Quarter |-> <<9900000, 1>>, Year |-> <<39600000, 1>>]

\* ---- C26
\* C26: the Sale_IDs of Sales_Ledger are pairwise distinct in every state, sales
\* created or imported within the same second included; hence the first row that
\* RecordPayment finds with the selected Sale_ID is the only one, the selected sale.
C26_SaleIdsPairwiseDistinct ==
    /\ DistinctSaleIds(Sales_Ledger)
    /\ \A k \in 1..Len(Sales_Ledger) :
          find_row(Sales_Ledger, Sales_Ledger[k].Sale_ID) = k

\* ---- C27
\* Two rows agree in every column that RecordPayment does not write.
SameOutsidePaymentCells(before, after) ==
    after = [before EXCEPT !.Amount_Paid = after.Amount_Paid,
                           !.Balance = after.Balance,
                           !.Status = after.Status]

\* `after` is `before`, or `before` with one row appended.
AppendedAtMost(before, after) ==
    \/ after = before
    \/ after # <<>> /\ after = Append(before, LastRow(after))

\* C27: a RecordPayment run changes at most one row of Sales_Ledger, the first with
\* the selected Sale_ID, and of that row only Amount_Paid, Balance and Status; every
\* other column and row is as it was and no row is added or removed; to Transactions
\* it only appends. A CreateSale or ImportHistoricalSale run only appends: the rows
\* already stored in either table are as they were.
C27_PaymentWritesThreeCellsOnly ==
    [][/\ last'.op = "RecordPayment" =>
            /\ Len(Sales_Ledger') = Len(Sales_Ledger)
            /\ \A k \in 1..Len(Sales_Ledger) :
                  /\ k # PaidRow => Sales_Ledger'[k] = Sales_Ledger[k]
                  /\ SameOutsidePaymentCells(Sales_Ledger[k], Sales_Ledger'[k])
            /\ AppendedAtMost(Transactions, Transactions')
       /\ last'.op \in {"CreateSale", "ImportHistoricalSale"} =>
            /\ AppendedAtMost(Sales_Ledger, Sales_Ledger')
            /\ AppendedAtMost(Transactions, Transactions')
      ]_vars

\* A payment on an imported sale has just completed with another sale stored before
\* it: the imported row has the new amount paid and still its price and its note.
C27_Witness ==
    /\ last.op = "RecordPayment" /\ last.outcome = "ok" /\ last.amount > 0
    /\ Len(Sales_Ledger) = 2
    /\ find_row(Sales_Ledger, last.sale_id) = 2
    /\ Sales_Ledger[2].Notes = "[HISTORICAL IMPORT]"
    /\ Sales_Ledger[2].Total_Sale_Price = last.selected.Total_Sale_Price
    /\ Sales_Ledger[2].Amount_Paid = last.selected.Amount_Paid + last.amount

\* ---- C28
\* The sum of the amounts of the transactions that carry a Sale_ID.
RECURSIVE TransSum(_, _)
TransSum(transactions, sale_id) ==
    IF transactions = <<>> THEN 0
    ELSE (IF Head(transactions).Sale_ID = sale_id THEN Head(transactions).Amount ELSE 0)
         + TransSum(Tail(transactions), sale_id)

\* The stored amount_paid of a sale, 0 while the sale is not stored.
StoredPaid(all_ledger, sale_id) ==
    IF find_row(all_ledger, sale_id) = 0 THEN 0
    ELSE all_ledger[find_row(all_ledger, sale_id)].Amount_Paid

\* C28: for every sale, the amounts of the Transactions rows with its Sale_ID sum to
\* its stored amount_paid less the amount already paid at import, in every state
\* reached by CreateSale, ImportHistoricalSale and RecordPayment runs, aborted and
\* retried ones included. Stated step by step, for tables whose Sale_IDs are
\* distinct: a run adds to a sale's transactions exactly what it adds to the sale's
\* amount_paid, where a sale an import has just stored starts from the amount
\* already paid and any other sale not yet stored from 0.
C28_TransactionsSumToAmountPaid ==
    [][DistinctSaleIds(Sales_Ledger') =>
          \A k \in 1..Len(Sales_Ledger') :
              LET sale_id == Sales_Ledger'[k].Sale_ID
                  imported == /\ k > Len(Sales_Ledger)
                              /\ last'.op = "ImportHistoricalSale"
                  paid_before == IF imported THEN Sales_Ledger'[k].Amount_Paid
                                 ELSE StoredPaid(Sales_Ledger, sale_id)
              IN TransSum(Transactions', sale_id) - TransSum(Transactions, sale_id)
                     = Sales_Ledger'[k].Amount_Paid - paid_before
      ]_vars

\* ---- C29
\* The sale as a session sees it: the stored row, or a row with its Sale_ID in the
\* ledger that some session holds in its cache.
ViewsOf(row) ==
    {row} \cup {r \in UNION {{ledger_data[s][k] : k \in 1..Len(ledger_data[s])} :
                                 s \in active} : r.Sale_ID = row.Sale_ID}

\* The row that a completed payment of payment_amount leaves, entered by a session
\* that sees the sale as `view`.
PaidUp(view, payment_amount) ==
    [view EXCEPT !.Amount_Paid = new_amount_paid(view, payment_amount),
                 !.Balance = new_balance(view, payment_amount),
                 !.Status = new_status(new_balance(view, payment_amount))]

\* Some sequence of at most n payments that the form accepts, the first entered on
\* `view` and the later ones on the row the one before left, ends in "Fully Paid".
RECURSIVE CanSettle(_, _)
CanSettle(view, n) ==
    /\ n > 0
    /\ view.Status # "Fully Paid"
    /\ \E payment_amount \in payment_amounts(view) :
          /\ payment_error(payment_amount) = ""
          /\ \/ PaidUp(view, payment_amount).Status = "Fully Paid"
             \/ CanSettle(PaidUp(view, payment_amount), n - 1)

\* C29: in every reachable state, the states left by a run cut short between its
\* cell writes included, every stored sale with status "Installment Plan" can still
\* be brought to "Fully Paid" by payments that the Payment Entry form accepts,
\* entered on the stored row or on the row as some session has it cached (stated
\* for tables whose Sale_IDs are distinct).
C29_InstallmentSaleCanBeSettled ==
    DistinctSaleIds(Sales_Ledger) =>
        \A k \in 1..Len(Sales_Ledger) :
            Sales_Ledger[k].Status = "Installment Plan" =>
                \E view \in ViewsOf(Sales_Ledger[k]) : CanSettle(view, MaxPrice)

\* ---- C30
\* The stored row is as completed runs leave it: its balance is price less amount
\* paid, its status tells whether the balance is 0, and its transactions sum to its
\* amount paid (the sale of the two-session start has nothing paid at creation). No
\* run cut short has left its mark on it.
SettledBooks(row) ==
    /\ row.Balance = row.Total_Sale_Price - row.Amount_Paid
    /\ row.Status = "Fully Paid" <=> row.Balance = 0
    /\ TransSum(Transactions, row.Sale_ID) = row.Amount_Paid

\* C30: with two sessions that loaded their caches before either acted, a payment
\* of p2 that one session completes right after the other session completed a
\* payment of p1 on the same sale, p2 no more than the stored balance, raises the
\* stored amount_paid by p2 and lowers the stored balance by p2, so that the two
\* payments add up to p1 + p2 (stated for a stored row with its books in order).
C30_ConcurrentPaymentsAddUp ==
    [][(PaymentOk /\ PaidRow # 0 /\ SettledBooks(Sales_Ledger[PaidRow])
          /\ last.op = "RecordPayment" /\ last.outcome = "ok"
          /\ last.sale_id = last'.sale_id /\ last.session # last'.session
          /\ last'.amount <= Sales_Ledger[PaidRow].Balance) =>
          /\ Sales_Ledger'[PaidRow].Amount_Paid =
                Sales_Ledger[PaidRow].Amount_Paid + last'.amount
          /\ Sales_Ledger'[PaidRow].Balance =
                Sales_Ledger[PaidRow].Balance - last'.amount
      ]_vars

\* ---- C24
\* The Monday of the week a dated row falls in: two days are in the same ISO week
\* exactly when these agree.
MondayOf(date) == ordinal_of(date) - weekday(ordinal_of(date))

\* months 1-3, 4-6, 7-9, 10-12 are quarters 1, 2, 3, 4
QuarterOfMonth == <<1, 1, 1, 2, 2, 2, 3, 3, 3, 4, 4, 4>>

InWeekOf(df, today) ==
    {k \in 1..Len(df) : ~df[k].Date.NaT /\ MondayOf(df[k].Date) = MondayOf(today)}

InQuarterOf(df, today) ==
    {k \in 1..Len(df) :
        /\ ~df[k].Date.NaT
        /\ year_of(df[k].Date) = year_of(today)
        /\ QuarterOfMonth[month_of(df[k].Date)] = QuarterOfMonth[month_of(today)]}

\* The quarterly half of C24 on its own.
QuarterActualIsBucketSum ==
    actuals.done => actuals.quarter = SumOver(trans_df, InQuarterOf(trans_df, actuals.today))

\* C24: the weekly actual the dashboard shows is the sum of the amounts of exactly
\* the transactions dated in the ISO week (Monday to Sunday) of the current date,
\* also when that week spans a year boundary; the quarterly actual is the sum over
\* the transactions of the current year whose month is in the same bucket 1-3, 4-6,
\* 7-9, 10-12 as the current month.
C24_WeekAndQuarterActuals ==
    /\ actuals.done =>
          actuals.week = SumOver(trans_df, InWeekOf(trans_df, actuals.today))
    /\ QuarterActualIsBucketSum

====
